---- MODULE Spec2Model ----
(***************************************************************************)
(* Model of the lap-analytics engine of pitstop:                           *)
(* get_analysis in src/tools/historical/analysis.py.                       *)
(*                                                                         *)
(* A session's laps are a sequence of lap records (the rows of the lap     *)
(* DataFrame, in row order).  get_analysis is one synchronous call: it     *)
(* picks the driver scope, runs the branch of the requested analysis type  *)
(* over every driver inside a try/except, and returns an AnalysisResponse. *)
(*                                                                         *)
(* Values.  An optional value (None / NaT / NaN column cell) is the empty  *)
(* tuple, a present value x is <<x>>.  A lap time is a whole number of     *)
(* ticks, one tick being the resolution of pd.Timedelta.  A float computed *)
(* from lap times is an exact fraction [kind, num, den], or NaN.  The      *)
(* string form of a Timedelta is modelled by the Timedelta's tick count.   *)
(* A standard deviation and a coefficient of variation are held as their   *)
(* squares, which keeps them exact and keeps their order.  The driver      *)
(* argument is a str or an int: a str is itself, the int n is written "#n" *)
(* (no driver code starts with #), and str() turns "#n" into the digits.   *)
(*                                                                         *)
(* Two state machines share the operators.  In the first a call of        *)
(* get_analysis is one step on the loaded session (laps, call, response).  *)
(* In the second, calls run side by side, each in a task of its own with   *)
(* its own local variables, and a step is the load of the session, one     *)
(* pass of the loop over the drivers, or the return (tasks).               *)
(*                                                                         *)
(* Left out: the Compound column and the session_name, event_name and year *)
(* fields, which are copied to the output and read by no test; rounding    *)
(* of binary floating point.                                               *)
(***************************************************************************)
EXTENDS Integers, Sequences, FiniteSets, TLC

VARIABLES laps, call, response, tasks

vars == <<laps, call, response, tasks>>

-----------------------------------------------------------------------------
(* Optional values *)

None == <<>>

Some(x) == <<x>>

\* pd.isna / pd.notna of a cell
isna(cell) == cell = None

notna(cell) == cell # None

-----------------------------------------------------------------------------
(* Bounds of the model *)

\* lap times range over 0..MaxTime ticks (or NaT); 0 is the lap time that
\* the tests "avg_time > 0" and "first_time and last_time" tell apart
MaxTime == 2

\* stint ids range over 1..MaxStint (or null)
MaxStint == 2

\* laps of one driver in a session
MaxLaps == 3

Drivers == {"A", "B", "C"}

\* DriverNumber column: fixed per driver
DriverNumber(d) ==
    CASE d = "A" -> "1" [] d = "B" -> "2" [] d = "C" -> "3" [] d = "D" -> "4"
      [] d = "E" -> "5" [] d = "F" -> "6" [] OTHER -> "7"

LapTimes == {None} \cup {Some(t) : t \in 0..MaxTime}

\* PitInTime / PitOutTime: NaT, or a timestamp
PitTimes == {None, Some(0)}

-----------------------------------------------------------------------------
(* Floats computed from lap times *)

NaN == [kind |-> "nan"]

RECURSIVE GCD(_, _)
GCD(a, b) == IF b = 0 THEN a ELSE GCD(b, a % b)

\* the fraction n / d, d > 0, in lowest terms
Num(n, d) ==
    LET g == GCD(IF n < 0 THEN -n ELSE n, d)
    IN  [kind |-> "num", num |-> n \div g, den |-> d \div g]

IsNaN(x) == x.kind = "nan"

RECURSIVE SumSeq(_)
SumSeq(s) == IF s = <<>> THEN 0 ELSE Head(s) + SumSeq(Tail(s))

RECURSIVE SumSq(_)
SumSq(s) == IF s = <<>> THEN 0 ELSE Head(s) * Head(s) + SumSq(Tail(s))

RECURSIVE MinSeq(_)
MinSeq(s) ==
    IF Len(s) = 1 THEN Head(s)
    ELSE LET m == MinSeq(Tail(s)) IN IF Head(s) < m THEN Head(s) ELSE m

\* the values of a LapTime column that are not NaT, in row order
\* (Series.dt.total_seconds() followed by a skipna reduction)
RECURSIVE total_seconds(_)
total_seconds(rows) ==
    IF rows = <<>> THEN <<>>
    ELSE IF isna(Head(rows).LapTime) THEN total_seconds(Tail(rows))
    ELSE <<Head(rows).LapTime[1]>> \o total_seconds(Tail(rows))

\* Series.mean(): NaN values are skipped; NaN when nothing is left
mean(rows) ==
    LET xs == total_seconds(rows)
    IN  IF xs = <<>> THEN NaN ELSE Num(SumSeq(xs), Len(xs))

\* Series.min(): NaN values are skipped; NaN when nothing is left
min(rows) ==
    LET xs == total_seconds(rows)
    IN  IF xs = <<>> THEN NaN ELSE Num(MinSeq(xs), 1)

\* int(x): truncation toward zero of the fraction n / d, d > 0
TruncDiv(n, d) == IF n >= 0 THEN n \div d ELSE -((-n) \div d)

\* pd.Timedelta(seconds=x) raises ValueError when x is NaN
TimedeltaRaises(x) == IsNaN(x)

\* str(pd.Timedelta(seconds=x)): x is cut to whole ticks
Timedelta(x) == TruncDiv(x.num, x.den)

-----------------------------------------------------------------------------
(* DataFrame operations *)

\* str(driver): the digits of an int, a str as it is
str(x) == CASE x = "#0" -> "0" [] x = "#1" -> "1" [] OTHER -> x

\* str.isdigit() of the identifiers of the model, which have one character
\* when they are numbers
isdigit(s) == s \in {"0", "1", "2", "3", "4", "5", "6", "7", "8", "9"}

\* Laps.pick_drivers(drv): the rows of one driver, in row order
pick_drivers(rows, drv) ==
    LET identifier == str(drv)
        Test(l)    == IF isdigit(identifier) THEN l.DriverNumber = identifier
                      ELSE l.Driver = identifier
    IN  SelectSeq(rows, Test)

\* unique giving the distinct values with the one seen last first
RECURSIVE unique_newest_first(_)
unique_newest_first(xs) ==
    IF xs = <<>> THEN <<>>
    ELSE LET init == unique_newest_first(SubSeq(xs, 1, Len(xs) - 1))
             last == xs[Len(xs)]
         IN  IF \E i \in 1..Len(init) : init[i] = last THEN init
             ELSE <<last>> \o init

\* unique giving the column as it is, repeated values included
unique_keeps_repeats(xs) == xs

\* Series.unique(): the distinct values in order of first appearance
RECURSIVE unique(_)
unique(xs) ==
    IF xs = <<>> THEN <<>>
    ELSE LET init == unique(SubSeq(xs, 1, Len(xs) - 1))
             last == xs[Len(xs)]
         IN  IF \E i \in 1..Len(init) : init[i] = last THEN init
             ELSE Append(init, last)

Column(rows, c) == [i \in 1..Len(rows) |-> rows[i][c]]

\* Series.median(): NaN values are skipped; the mean of the two middle
\* values when their number is even
RECURSIVE Insert(_, _)
Insert(x, s) ==
    IF s = <<>> THEN <<x>>
    ELSE IF x <= Head(s) THEN <<x>> \o s
    ELSE <<Head(s)>> \o Insert(x, Tail(s))

RECURSIVE Sorted(_)
Sorted(s) == IF s = <<>> THEN <<>> ELSE Insert(Head(s), Sorted(Tail(s)))

median(rows) ==
    LET xs == Sorted(total_seconds(rows))
        n  == Len(xs)
    IN  IF n = 0 THEN NaN
        ELSE IF n % 2 = 1 THEN Num(xs[(n + 1) \div 2], 1)
        ELSE Num(xs[n \div 2] + xs[n \div 2 + 1], 2)

\* Series.std(): the sample standard deviation (ddof = 1) of the values that
\* are not NaN, NaN when fewer than two are left.  The value is held as its
\* square, the sample variance (n * sum(x^2) - sum(x)^2) / (n * (n - 1)).
std(rows) ==
    LET xs == total_seconds(rows)
        n  == Len(xs)
    IN  IF n < 2 THEN NaN
        ELSE Num(n * SumSq(xs) - SumSeq(xs) * SumSeq(xs), n * (n - 1))

\* a < b for two floats; every comparison with NaN is false
Less(a, b) ==
    IF IsNaN(a) \/ IsNaN(b) THEN FALSE ELSE a.num * b.den < b.num * a.den

\* bool(x) of a float-or-None cell: None and 0.0 are false, NaN is true
Truthy(cell) ==
    /\ cell # None
    /\ IsNaN(cell[1]) \/ cell[1].num # 0

-----------------------------------------------------------------------------
(* The clean-lap filters, one per branch as in the source *)

\* race_pace_clean without the IsAccurate test
race_pace_clean_any_accuracy(l) ==
    /\ isna(l.PitInTime)
    /\ isna(l.PitOutTime)
    /\ l.Deleted = FALSE

\* race_pace: clean_laps
race_pace_clean(l) ==
    /\ isna(l.PitInTime)
    /\ isna(l.PitOutTime)
    /\ l.IsAccurate = TRUE
    /\ l.Deleted = FALSE

\* tire_degradation: clean_stint_laps
degradation_clean(l) ==
    /\ isna(l.PitInTime)
    /\ isna(l.PitOutTime)
    /\ l.IsAccurate = TRUE
    /\ l.Deleted = FALSE

\* stint_summary: clean_stint_laps
summary_clean(l) ==
    /\ isna(l.PitInTime)
    /\ isna(l.PitOutTime)
    /\ l.IsAccurate = TRUE

\* consistency: clean_laps
consistency_clean(l) ==
    /\ isna(l.PitInTime)
    /\ isna(l.PitOutTime)
    /\ l.IsAccurate = TRUE
    /\ l.Deleted = FALSE

\* "if driver:" with every value but None taken as a filter
DriverGiven_is_not_none(driver) == driver # None

\* bool(driver) of the driver argument: None, "" and 0 are false
DriverGiven(driver) == driver # None /\ driver[1] \notin {"", "#0"}

\* laps = session_obj.laps.pick_drivers(driver) if driver else session_obj.laps
scoped_laps(session_laps, driver) ==
    IF DriverGiven(driver) THEN pick_drivers(session_laps, driver[1])
    ELSE session_laps

\* drivers_to_analyze taking one driver of the column when there is no filter
drivers_to_analyze_first_only(rows, driver) ==
    IF DriverGiven(driver) THEN <<driver[1]>>
    ELSE IF rows = <<>> THEN <<>>
    ELSE <<rows[1].Driver>>

\* drivers_to_analyze = [driver] if driver else laps['Driver'].unique()
drivers_to_analyze(rows, driver) ==
    IF DriverGiven(driver) THEN <<driver[1]>>
    ELSE unique(Column(rows, "Driver"))

-----------------------------------------------------------------------------
(* race_pace: one step of the loop over drivers_to_analyze.  The operator  *)
(* returns the result list after the step; when the body raises, the       *)
(* except clause continues with the list as the body left it.              *)

race_pace_driver(list, rows, drv) ==
    LET driver_laps == pick_drivers(rows, drv)
        clean_laps  == SelectSeq(driver_laps, race_pace_clean)
    IN  IF Len(clean_laps) > 0
        THEN LET avg_time     == mean(clean_laps)
                 median_time  == median(clean_laps)
                 fastest_time == min(clean_laps)
             IN  IF TimedeltaRaises(avg_time) THEN list
                 ELSE Append(list,
                        [driver           |-> clean_laps[1].Driver,
                         driver_number    |-> clean_laps[1].DriverNumber,
                         average_lap_time |-> Timedelta(avg_time),
                         median_lap_time  |-> Timedelta(median_time),
                         fastest_lap_time |-> Timedelta(fastest_time),
                         total_laps       |-> Len(driver_laps),
                         clean_laps       |-> Len(clean_laps)])
        ELSE list

-----------------------------------------------------------------------------
(* tire_degradation: the loop over the stints of one driver, from stint    *)
(* number i on.  A raise inside the loop ends the driver: the rows already *)
(* appended for earlier stints stay in the list.                           *)

\* first_lap['LapTime'].total_seconds() if pd.notna(first_lap['LapTime']) else None
lap_seconds(lap) ==
    IF notna(lap.LapTime) THEN Some(Num(lap.LapTime[1], 1)) ELSE None

\* degradation = None; if first_time and last_time: str(pd.Timedelta(last - first))
degradation_of(first_time, last_time) ==
    IF Truthy(first_time) /\ Truthy(last_time)
    THEN Some(Timedelta(Num(last_time[1].num - first_time[1].num, 1)))
    ELSE None

\* degradation_stints grouping the laps without a stint id as one more
\* stint, numbered 0
RECURSIVE degradation_stints_null_is_a_stint(_, _, _, _)
degradation_stints_null_is_a_stint(list, driver_laps, stints, i) ==
    IF i > Len(stints) THEN list
    ELSE LET InStint(l)       == l.Stint = stints[i]
             stint_laps       == SelectSeq(driver_laps, InStint)
             clean_stint_laps == SelectSeq(stint_laps, degradation_clean)
         IN  IF Len(clean_stint_laps) >= 2
             THEN LET first_lap  == clean_stint_laps[1]
                      last_lap   == clean_stint_laps[Len(clean_stint_laps)]
                      first_time == lap_seconds(first_lap)
                      last_time  == lap_seconds(last_lap)
                      avg_time   == mean(clean_stint_laps)
                  IN  IF TimedeltaRaises(avg_time) THEN list
                      ELSE degradation_stints_null_is_a_stint(
                             Append(list,
                               [driver           |-> first_lap.Driver,
                                driver_number    |-> first_lap.DriverNumber,
                                stint            |-> IF isna(stints[i]) THEN 0
                                                     ELSE stints[i][1],
                                first_lap_time   |-> first_lap.LapTime,
                                last_lap_time    |-> last_lap.LapTime,
                                average_lap_time |-> Timedelta(avg_time),
                                degradation      |-> degradation_of(first_time, last_time),
                                stint_length     |-> Len(clean_stint_laps)]),
                             driver_laps, stints, i + 1)
             ELSE degradation_stints_null_is_a_stint(list, driver_laps,
                                                     stints, i + 1)

RECURSIVE degradation_stints(_, _, _, _)
degradation_stints(list, driver_laps, stints, i) ==
    IF i > Len(stints) THEN list
    ELSE IF isna(stints[i])
    THEN degradation_stints(list, driver_laps, stints, i + 1)
    ELSE LET InStint(l)       == l.Stint = stints[i]
             stint_laps       == SelectSeq(driver_laps, InStint)
             clean_stint_laps == SelectSeq(stint_laps, degradation_clean)
         IN  IF Len(clean_stint_laps) >= 2
             THEN LET first_lap  == clean_stint_laps[1]
                      last_lap   == clean_stint_laps[Len(clean_stint_laps)]
                      first_time == lap_seconds(first_lap)
                      last_time  == lap_seconds(last_lap)
                      avg_time   == mean(clean_stint_laps)
                  IN  IF TimedeltaRaises(avg_time) THEN list
                      ELSE degradation_stints(
                             Append(list,
                               [driver           |-> first_lap.Driver,
                                driver_number    |-> first_lap.DriverNumber,
                                stint            |-> stints[i][1],
                                first_lap_time   |-> first_lap.LapTime,
                                last_lap_time    |-> last_lap.LapTime,
                                average_lap_time |-> Timedelta(avg_time),
                                degradation      |-> degradation_of(first_time, last_time),
                                stint_length     |-> Len(clean_stint_laps)]),
                             driver_laps, stints, i + 1)
             ELSE degradation_stints(list, driver_laps, stints, i + 1)

\* degradation_driver walking the stint ids in numeric order
degradation_driver_numeric_order(list, rows, drv) ==
    LET driver_laps == pick_drivers(rows, drv)
        present     == SelectSeq(unique(Column(driver_laps, "Stint")), notna)
        ids         == Sorted([i \in 1..Len(present) |-> present[i][1]])
        stints      == [i \in 1..Len(ids) |-> Some(ids[i])]
    IN  degradation_stints(list, driver_laps, stints, 1)

degradation_driver(list, rows, drv) ==
    LET driver_laps == pick_drivers(rows, drv)
        stints      == unique(Column(driver_laps, "Stint"))
    IN  degradation_stints(list, driver_laps, stints, 1)

-----------------------------------------------------------------------------
(* stint_summary: the loop over the stints of one driver *)

\* summary_stints with the gate of the consistency branch: a stint needs three
\* kept laps to get a row
RECURSIVE summary_stints_needs_three_laps(_, _, _, _)
summary_stints_needs_three_laps(list, driver_laps, stints, i) ==
    IF i > Len(stints) THEN list
    ELSE IF isna(stints[i])
    THEN summary_stints_needs_three_laps(list, driver_laps, stints, i + 1)
    ELSE LET InStint(l)       == l.Stint = stints[i]
             stint_laps       == SelectSeq(driver_laps, InStint)
             clean_stint_laps == SelectSeq(stint_laps, summary_clean)
         IN  IF Len(clean_stint_laps) > 2
             THEN LET avg_time     == mean(clean_stint_laps)
                      fastest_time == min(clean_stint_laps)
                  IN  IF TimedeltaRaises(avg_time) THEN list
                      ELSE summary_stints_needs_three_laps(
                             Append(list,
                               [driver           |-> clean_stint_laps[1].Driver,
                                driver_number    |-> clean_stint_laps[1].DriverNumber,
                                stint            |-> stints[i][1],
                                stint_length     |-> Len(clean_stint_laps),
                                average_lap_time |-> Timedelta(avg_time),
                                fastest_lap_time |-> Timedelta(fastest_time)]),
                             driver_laps, stints, i + 1)
             ELSE summary_stints_needs_three_laps(list, driver_laps, stints, i + 1)

RECURSIVE summary_stints(_, _, _, _)
summary_stints(list, driver_laps, stints, i) ==
    IF i > Len(stints) THEN list
    ELSE IF isna(stints[i])
    THEN summary_stints(list, driver_laps, stints, i + 1)
    ELSE LET InStint(l)       == l.Stint = stints[i]
             stint_laps       == SelectSeq(driver_laps, InStint)
             clean_stint_laps == SelectSeq(stint_laps, summary_clean)
         IN  IF Len(clean_stint_laps) > 0
             THEN LET avg_time     == mean(clean_stint_laps)
                      fastest_time == min(clean_stint_laps)
                  IN  IF TimedeltaRaises(avg_time) THEN list
                      ELSE summary_stints(
                             Append(list,
                               [driver           |-> clean_stint_laps[1].Driver,
                                driver_number    |-> clean_stint_laps[1].DriverNumber,
                                stint            |-> stints[i][1],
                                stint_length     |-> Len(clean_stint_laps),
                                average_lap_time |-> Timedelta(avg_time),
                                fastest_lap_time |-> Timedelta(fastest_time)]),
                             driver_laps, stints, i + 1)
             ELSE summary_stints(list, driver_laps, stints, i + 1)

summary_driver(list, rows, drv) ==
    LET driver_laps == pick_drivers(rows, drv)
        stints      == unique(Column(driver_laps, "Stint"))
    IN  summary_stints(list, driver_laps, stints, 1)

-----------------------------------------------------------------------------
(* consistency *)

\* (std_dev / avg_time) * 100 if avg_time > 0 else None.  std_dev is held as
\* its square, so the quotient is held as its square too:
\* 100^2 * variance / avg_time^2.  NaN > 0 is false; NaN / x is NaN.
coefficient_of_variation(std_dev, avg_time) ==
    IF IsNaN(avg_time) \/ avg_time.num <= 0 THEN None
    ELSE IF IsNaN(std_dev) THEN Some(NaN)
    ELSE Some(Num(100 * 100 * std_dev.num * avg_time.den * avg_time.den,
                  std_dev.den * avg_time.num * avg_time.num))

consistency_driver(list, rows, drv) ==
    LET driver_laps == pick_drivers(rows, drv)
        clean_laps  == SelectSeq(driver_laps, consistency_clean)
    IN  IF Len(clean_laps) >= 3
        THEN LET avg_time == mean(clean_laps)
                 std_dev  == std(clean_laps)
                 cv       == coefficient_of_variation(std_dev, avg_time)
             IN  IF TimedeltaRaises(avg_time) THEN list
                 ELSE Append(list,
                        [driver           |-> clean_laps[1].Driver,
                         driver_number    |-> clean_laps[1].DriverNumber,
                         average_lap_time |-> Timedelta(avg_time),
                         std_deviation    |-> std_dev,
                         coefficient_of_variation |->
                             IF Truthy(cv) THEN cv ELSE None,
                         total_laps       |-> Len(clean_laps)])
        ELSE list

\* the sentinel of the sort key
Sentinel == 999

\* key=lambda x: x.coefficient_of_variation if x.coefficient_of_variation else 999
\* (coefficients are held as squares, and so is the sentinel)
sort_key(x) ==
    IF Truthy(x.coefficient_of_variation) THEN x.coefficient_of_variation[1]
    ELSE Num(Sentinel * Sentinel, 1)

\* list.sort of a list shorter than 64: the leading run is found (and
\* reversed when it is strictly descending), then every later element is
\* put in place by a binary search that asks only "pivot < element".
RECURSIVE count_run(_, _, _)
count_run(rows, i, descending) ==
    IF i > Len(rows) THEN Len(rows)
    ELSE IF Less(sort_key(rows[i]), sort_key(rows[i - 1])) = descending
    THEN count_run(rows, i + 1, descending)
    ELSE i - 1

RECURSIVE Reverse(_)
Reverse(s) == IF s = <<>> THEN <<>> ELSE Append(Reverse(Tail(s)), Head(s))

RECURSIVE bisect(_, _, _, _)
bisect(rows, pivot, l, r) ==
    IF l >= r THEN l
    ELSE LET p == l + (r - l) \div 2
         IN  IF Less(sort_key(pivot), sort_key(rows[p]))
             THEN bisect(rows, pivot, l, p)
             ELSE bisect(rows, pivot, p + 1, r)

RECURSIVE binarysort(_, _)
binarysort(rows, start) ==
    IF start > Len(rows) THEN rows
    ELSE LET pivot == rows[start]
             pos   == bisect(rows, pivot, 1, start)
         IN  binarysort(SubSeq(rows, 1, pos - 1) \o <<pivot>>
                          \o SubSeq(rows, pos, start - 1)
                          \o SubSeq(rows, start + 1, Len(rows)),
                        start + 1)

\* consistency_list.sort(key=...)
sort(rows) ==
    IF Len(rows) < 2 THEN rows
    ELSE LET descending == Less(sort_key(rows[2]), sort_key(rows[1]))
             n          == count_run(rows, 3, descending)
             run        == IF descending
                           THEN Reverse(SubSeq(rows, 1, n))
                                  \o SubSeq(rows, n + 1, Len(rows))
                           ELSE rows
         IN  binarysort(run, n + 1)

-----------------------------------------------------------------------------
(* get_analysis *)

AnalysisTypes == {"race_pace", "tire_degradation", "stint_summary", "consistency"}

\* the loop over the stints of one driver raises: a stint with a stint id
\* passes the gate of the branch and the mean of its kept laps is NaN
stint_raises(analysis_type, driver_laps) ==
    \E i \in 1..Len(driver_laps) :
        LET InStint(l)       == l.Stint = driver_laps[i].Stint
            stint_laps       == SelectSeq(driver_laps, InStint)
            clean_stint_laps == IF analysis_type = "tire_degradation"
                                THEN SelectSeq(stint_laps, degradation_clean)
                                ELSE SelectSeq(stint_laps, summary_clean)
            gate             == IF analysis_type = "tire_degradation" THEN 2 ELSE 1
        IN  /\ notna(driver_laps[i].Stint)
            /\ Len(clean_stint_laps) >= gate
            /\ TimedeltaRaises(mean(clean_stint_laps))

\* the try body of one driver raises (and the except clause continues)
raises(analysis_type, rows, drv) ==
    LET driver_laps == pick_drivers(rows, drv)
    IN  CASE analysis_type = "race_pace" ->
               LET clean_laps == SelectSeq(driver_laps, race_pace_clean)
               IN  Len(clean_laps) > 0 /\ TimedeltaRaises(mean(clean_laps))
          [] analysis_type = "tire_degradation" ->
               stint_raises(analysis_type, driver_laps)
          [] analysis_type = "stint_summary" ->
               stint_raises(analysis_type, driver_laps)
          [] analysis_type = "consistency" ->
               LET clean_laps == SelectSeq(driver_laps, consistency_clean)
               IN  Len(clean_laps) >= 3 /\ TimedeltaRaises(mean(clean_laps))

\* for_drivers with the try around the loop: the first driver that raises
\* ends the loop
RECURSIVE for_drivers_stops_at_raise(_, _, _, _, _)
for_drivers_stops_at_raise(analysis_type, list, rows, drivers, i) ==
    IF i > Len(drivers) THEN list
    ELSE LET next ==
               CASE analysis_type = "race_pace" ->
                      race_pace_driver(list, rows, drivers[i])
                 [] analysis_type = "tire_degradation" ->
                      degradation_driver(list, rows, drivers[i])
                 [] analysis_type = "stint_summary" ->
                      summary_driver(list, rows, drivers[i])
                 [] analysis_type = "consistency" ->
                      consistency_driver(list, rows, drivers[i])
         IN  IF raises(analysis_type, rows, drivers[i]) THEN next
             ELSE for_drivers_stops_at_raise(analysis_type, next, rows,
                                             drivers, i + 1)

\* one pass of "for drv in drivers_to_analyze: try: ... except Exception: continue"
RECURSIVE for_drivers(_, _, _, _, _)
for_drivers(analysis_type, list, rows, drivers, i) ==
    IF i > Len(drivers) THEN list
    ELSE LET next ==
               CASE analysis_type = "race_pace" ->
                      race_pace_driver(list, rows, drivers[i])
                 [] analysis_type = "tire_degradation" ->
                      degradation_driver(list, rows, drivers[i])
                 [] analysis_type = "stint_summary" ->
                      summary_driver(list, rows, drivers[i])
                 [] analysis_type = "consistency" ->
                      consistency_driver(list, rows, drivers[i])
         IN  for_drivers(analysis_type, next, rows, drivers, i + 1)

\* AnalysisResponse with total_records counting the drivers of the rows
AnalysisResponse_counts_drivers(analysis_type, list, driver) ==
    [kind             |-> "AnalysisResponse",
     analysis_type    |-> analysis_type,
     race_pace        |-> IF analysis_type = "race_pace" THEN Some(list) ELSE None,
     tire_degradation |-> IF analysis_type = "tire_degradation" THEN Some(list) ELSE None,
     stint_summaries  |-> IF analysis_type = "stint_summary" THEN Some(list) ELSE None,
     consistency      |-> IF analysis_type = "consistency" THEN Some(list) ELSE None,
     total_records    |-> Cardinality({list[i].driver : i \in 1..Len(list)}),
     driver_filter    |-> IF DriverGiven(driver) THEN Some(str(driver[1])) ELSE None]

\* AnalysisResponse with the stint_summary branch passing its list as
\* tire_degradation, as a copy of the branch above it would
AnalysisResponse_summary_as_degradation(analysis_type, list, driver) ==
    [kind             |-> "AnalysisResponse",
     analysis_type    |-> analysis_type,
     race_pace        |-> IF analysis_type = "race_pace" THEN Some(list) ELSE None,
     tire_degradation |-> IF analysis_type \in {"tire_degradation", "stint_summary"}
                          THEN Some(list) ELSE None,
     stint_summaries  |-> None,
     consistency      |-> IF analysis_type = "consistency" THEN Some(list) ELSE None,
     total_records    |-> Len(list),
     driver_filter    |-> IF DriverGiven(driver) THEN Some(str(driver[1])) ELSE None]

\* AnalysisResponse(...): the list of the branch is set, the other three keep
\* their default None
AnalysisResponse(analysis_type, list, driver) ==
    [kind             |-> "AnalysisResponse",
     analysis_type    |-> analysis_type,
     race_pace        |-> IF analysis_type = "race_pace" THEN Some(list) ELSE None,
     tire_degradation |-> IF analysis_type = "tire_degradation" THEN Some(list) ELSE None,
     stint_summaries  |-> IF analysis_type = "stint_summary" THEN Some(list) ELSE None,
     consistency      |-> IF analysis_type = "consistency" THEN Some(list) ELSE None,
     total_records    |-> Len(list),
     driver_filter    |-> IF DriverGiven(driver) THEN Some(str(driver[1])) ELSE None]

\* get_analysis without the try/except of the driver loops: the exception of
\* a driver leaves the call
get_analysis_without_try(session_laps, analysis_type, driver) ==
    LET rows    == scoped_laps(session_laps, driver)
        drivers == drivers_to_analyze(rows, driver)
    IN  IF analysis_type \in AnalysisTypes
        THEN IF \E i \in 1..Len(drivers) : raises(analysis_type, rows, drivers[i])
             THEN [kind |-> "Raised"]
             ELSE LET list == for_drivers(analysis_type, <<>>, rows, drivers, 1)
                  IN  AnalysisResponse(analysis_type,
                                       IF analysis_type = "consistency"
                                       THEN sort(list) ELSE list,
                                       driver)
        ELSE [kind |-> "None"]

\* the value get_analysis returns; a function body that ends without a
\* return statement returns None
get_analysis(session_laps, analysis_type, driver) ==
    LET rows    == scoped_laps(session_laps, driver)
        drivers == drivers_to_analyze(rows, driver)
    IN  IF analysis_type \in AnalysisTypes
        THEN LET list == for_drivers(analysis_type, <<>>, rows, drivers, 1)
             IN  AnalysisResponse(analysis_type,
                                  IF analysis_type = "consistency"
                                  THEN sort(list) ELSE list,
                                  driver)
        ELSE [kind |-> "None"]

-----------------------------------------------------------------------------
(* Sessions: the lap collections the provider hands to get_analysis.  The  *)
(* provider builds the collection driver by driver, so the laps of one     *)
(* driver are contiguous in most families and the drivers come in either   *)
(* order; one family interleaves the laps of two drivers.  The laps of a   *)
(* driver come in lap order, LapNumber counting them from 1; one family    *)
(* holds them in another row order, which nothing in get_analysis rules    *)
(* out.                                                                    *)

\* a row of the lap DataFrame; LapNumber is set by Numbered
Lap(d, t, s, pin, pout, acc, del) ==
    [Driver |-> d, DriverNumber |-> DriverNumber(d), LapNumber |-> 1,
     LapTime |-> t, Stint |-> s,
     PitInTime |-> pin, PitOutTime |-> pout, IsAccurate |-> acc, Deleted |-> del]

\* the rows with LapNumber set: the laps of each driver count from 1 in row
\* order
Numbered(rows) ==
    [i \in 1..Len(rows) |->
        [rows[i] EXCEPT !.LapNumber =
            Cardinality({j \in 1..i : rows[j].Driver = rows[i].Driver})]]

\* every combination of the four flags, with and without a lap time
FlagLaps(d) ==
    {Lap(d, t, Some(1), pin, pout, acc, del) :
        t \in {None, Some(1)}, pin \in PitTimes, pout \in PitTimes,
        acc \in BOOLEAN, del \in BOOLEAN}

\* laps of one stint that pass every flag test, with any lap time or none
PaceLaps(d) == {Lap(d, t, Some(1), None, None, TRUE, FALSE) : t \in LapTimes}

\* laps that pass every flag test, in any stint, with one lap time or none
StintLaps(d) ==
    {Lap(d, t, Some(s), None, None, TRUE, FALSE) :
        t \in {None, Some(1)}, s \in 1..MaxStint}

\* timed laps with or without a stint id, deleted or not
NullStintLaps(d) ==
    {Lap(d, Some(1), s, None, None, TRUE, del) :
        s \in {None, Some(1)}, del \in BOOLEAN}

\* MaxLaps laps of one stint that pass every flag test: two different lap
\* times, all the same lap time, or a single lap time among laps without one
FullBlocks(d) ==
    {[i \in 1..MaxLaps |-> Lap(d, t[i], Some(1), None, None, TRUE, FALSE)] :
        t \in {[i \in 1..MaxLaps |-> IF i = 1 THEN Some(1) ELSE Some(2)],
               [i \in 1..MaxLaps |-> IF i = MaxLaps THEN Some(2) ELSE Some(1)],
               [i \in 1..MaxLaps |-> Some(1)],
               [i \in 1..MaxLaps |-> IF i = MaxLaps THEN Some(1) ELSE None]}}

Seqs(V, n) == UNION {[1..k -> V] : k \in 0..n}

TwoDrivers(BA, BB) == {a \o b : a \in BA, b \in BB} \cup {b \o a : a \in BA, b \in BB}

\* one lap or none of one driver, over every flag combination, beside one
\* clean lap or none of another
FlagSessions ==
    TwoDrivers(Seqs(FlagLaps("A"), 1),
               {<<>>, <<Lap("B", Some(1), Some(1), None, None, TRUE, FALSE)>>})

\* laps of one stint that pass every flag test, with one lap time or none
EdgeLaps(d) == {Lap(d, t, Some(1), None, None, TRUE, FALSE) : t \in {None, Some(1)}}

\* up to MaxLaps laps of one driver with any lap times; or up to MaxLaps
\* laps of one driver, timed or not, beside a full block of another
PaceSessions ==
    Seqs(PaceLaps("A"), MaxLaps)
      \cup TwoDrivers(Seqs(EdgeLaps("A"), MaxLaps), FullBlocks("B"))

\* timed laps that pass every flag test, in any stint
TimedStintLaps(d) ==
    {Lap(d, Some(1), Some(s), None, None, TRUE, FALSE) : s \in 1..MaxStint}

\* two laps in one stint followed by two laps in another (or the same) stint
TwoStintBlocks(d) ==
    {[i \in 1..4 |-> Lap(d, t[i], Some(IF i <= 2 THEN s1 ELSE s2),
                          None, None, TRUE, FALSE)] :
        t \in [1..4 -> {None, Some(1)}], s1 \in 1..MaxStint, s2 \in 1..MaxStint}

\* laps of one driver over several stints: fewer than MaxLaps laps, timed or
\* not; MaxLaps timed laps; or two stints of two laps each, timed or not
StintSessions ==
    Seqs(StintLaps("A"), MaxLaps - 1)
      \cup [1..MaxLaps -> TimedStintLaps("A")]
      \cup TwoStintBlocks("A")

\* up to MaxLaps laps of one driver, some without a stint id, some deleted
NullStintSessions == Seqs(NullStintLaps("A"), MaxLaps)

\* a full block for each of three drivers, in every driver order
TrioSessions ==
    UNION {{x \o y \o z : x \in FullBlocks(p[1]), y \in FullBlocks(p[2]),
                           z \in FullBlocks(p[3])} :
             p \in {q \in [1..3 -> Drivers] :
                      \A i, j \in 1..3 : i # j => q[i] # q[j]}}

\* the laps of two drivers in turn, two laps each
InterleavedSessions ==
    {<<a1, b1, a2, b2>> :
        a1 \in TimedStintLaps("A"), b1 \in TimedStintLaps("B"),
        a2 \in TimedStintLaps("A"), b2 \in TimedStintLaps("B")}
      \cup {<<b1, a1, b2, a2>> :
        a1 \in TimedStintLaps("A"), b1 \in TimedStintLaps("B"),
        a2 \in TimedStintLaps("A"), b2 \in TimedStintLaps("B")}

\* two timed laps of one stint that pass every flag test, the later lap in
\* the earlier row
ShuffledSessions ==
    {Reverse(Numbered(<<Lap("A", Some(t1), Some(1), None, None, TRUE, FALSE),
                        Lap("A", Some(t2), Some(1), None, None, TRUE, FALSE)>>)) :
        t1 \in 0..MaxTime, t2 \in 0..MaxTime}

OrderedSessions ==
    FlagSessions \cup PaceSessions \cup StintSessions \cup NullStintSessions
      \cup TrioSessions \cup InterleavedSessions

Sessions == {Numbered(rows) : rows \in OrderedSessions} \cup ShuffledSessions

\* the analysis_type arguments: the four types and one that is none of them
AnalysisTypeArgs == AnalysisTypes \cup {"lap_times"}

\* the driver arguments: no filter, a driver code, the empty string, or the
\* number 0 or 1
DriverArgs == {None, Some(""), Some("#0"), Some("#1")} \cup {Some(d) : d \in Drivers}

-----------------------------------------------------------------------------
(* The state machine *)

NoCall == [analysis_type |-> "", driver |-> None]

\* the calls that may run side by side
Calls == {"c1", "c2"}

\* a task before its call: no local variable is bound yet
Idle ==
    [pc |-> "idle", analysis_type |-> "", driver |-> None, session_laps |-> <<>>,
     laps |-> <<>>, drivers_to_analyze |-> <<>>, i |-> 1, list |-> <<>>,
     response |-> [kind |-> "NoCall"], overlapped |-> FALSE]

Init ==
    /\ laps \in Sessions
    /\ call = NoCall
    /\ response = [kind |-> "NoCall"]
    /\ tasks = [c \in Calls |-> Idle]

\* GetAnalysis writing the laps of the filter back to the loaded session
GetAnalysis_narrows_session(analysis_type, driver) ==
    /\ call' = [analysis_type |-> analysis_type, driver |-> driver]
    /\ response' = get_analysis(laps, analysis_type, driver)
    /\ laps' = scoped_laps(laps, driver)
    /\ UNCHANGED tasks

\* one call of get_analysis on the loaded session
GetAnalysis(analysis_type, driver) ==
    /\ call' = [analysis_type |-> analysis_type, driver |-> driver]
    /\ response' = get_analysis(laps, analysis_type, driver)
    /\ UNCHANGED <<laps, tasks>>

Next == \E analysis_type \in AnalysisTypeArgs, driver \in DriverArgs :
            GetAnalysis(analysis_type, driver)

Spec == Init /\ [][Next]_vars

-----------------------------------------------------------------------------
(* The consistency sort on a grid of seven drivers.  list.sort is applied  *)
(* to the rows that the consistency branch builds for a session in which   *)
(* every driver of the grid drove a full block of laps.                    *)

\* the drivers of the grid, in the order of their laps in the session
Grid == <<"A", "B", "C", "D", "E", "F", "G">>

\* the sessions whose first k grid drivers drove a full block each
RECURSIVE GridRows(_)
GridRows(k) ==
    IF k = 0 THEN {<<>>}
    ELSE {g \o b : g \in GridRows(k - 1), b \in FullBlocks(Grid[k])}

GridSessions == {Numbered(rows) : rows \in GridRows(Len(Grid))}

GridInit ==
    /\ laps \in GridSessions
    /\ call = NoCall
    /\ response = [kind |-> "NoCall"]
    /\ tasks = [c \in Calls |-> Idle]

\* the consistency analysis of the whole grid
GridNext == GetAnalysis("consistency", None)

SortSpec == GridInit /\ [][GridNext]_vars

-----------------------------------------------------------------------------
(* Calls of get_analysis side by side.  Each call runs in a task; the      *)
(* names a call binds (laps, drivers_to_analyze, the result list, the loop *)
(* position) are local to it.  A step of a task is the part of the call up *)
(* to the loop, one pass of the loop over the drivers, or the part after   *)
(* the loop; the steps of the tasks interleave in every order.  The        *)
(* provider hands each call the laps of the session it asks for.           *)

\* the sessions the calls ask for: a full block for each of two drivers
ConcSessions ==
    {Numbered(a \o b) : a \in FullBlocks("A"), b \in FullBlocks("B")}

\* the driver arguments of the calls: no filter, or one driver
ConcDriverArgs == {None, Some("B")}

\* lines 41-60: the session is loaded, the laps are scoped, the result list
\* is bound to a new empty list and drivers_to_analyze is set
Start(c, session_laps, analysis_type, driver) ==
    /\ tasks[c].pc = "idle"
    /\ LET rows == scoped_laps(session_laps, driver)
       IN  tasks' = [tasks EXCEPT ![c] =
             [pc                 |-> "loop",
              analysis_type      |-> analysis_type,
              driver             |-> driver,
              session_laps       |-> session_laps,
              laps               |-> rows,
              drivers_to_analyze |-> IF analysis_type \in AnalysisTypes
                                     THEN drivers_to_analyze(rows, driver)
                                     ELSE <<>>,
              i                  |-> 1,
              list               |-> <<>>,
              response           |-> [kind |-> "NoCall"],
              overlapped         |-> FALSE]]
    /\ UNCHANGED <<laps, call, response>>

\* the list after one pass of the loop of task c
Pass(c) ==
    for_drivers(tasks[c].analysis_type, tasks[c].list, tasks[c].laps,
                <<tasks[c].drivers_to_analyze[tasks[c].i]>>, 1)

\* Step with the result list bound at module level: every call in its loop
\* appends to the one list
Step_on_module_level_list(c) ==
    /\ tasks[c].pc = "loop"
    /\ tasks[c].i <= Len(tasks[c].drivers_to_analyze)
    /\ tasks' = [d \in Calls |->
                   IF d = c
                   THEN [tasks[c] EXCEPT !.list = Pass(c), !.i = tasks[c].i + 1]
                   ELSE IF tasks[d].pc = "loop"
                   THEN [tasks[d] EXCEPT !.list = Pass(c), !.overlapped = TRUE]
                   ELSE tasks[d]]
    /\ UNCHANGED <<laps, call, response>>

\* one pass of "for drv in drivers_to_analyze": the row of the driver, or
\* the rows of its stints, are appended to the list of the call; a call that
\* is in its loop meanwhile is marked as overlapped
Step(c) ==
    /\ tasks[c].pc = "loop"
    /\ tasks[c].i <= Len(tasks[c].drivers_to_analyze)
    /\ tasks' = [d \in Calls |->
                   IF d = c
                   THEN [tasks[c] EXCEPT !.list = Pass(c), !.i = tasks[c].i + 1]
                   ELSE IF tasks[d].pc = "loop"
                   THEN [tasks[d] EXCEPT !.overlapped = TRUE]
                   ELSE tasks[d]]
    /\ UNCHANGED <<laps, call, response>>

\* after the loop: the consistency list is sorted and the response is built;
\* a call whose analysis_type is none of the four returns None
Finish(c) ==
    /\ tasks[c].pc = "loop"
    /\ tasks[c].i > Len(tasks[c].drivers_to_analyze)
    /\ tasks' = [tasks EXCEPT
         ![c].pc = "done",
         ![c].response =
             IF tasks[c].analysis_type \in AnalysisTypes
             THEN AnalysisResponse(tasks[c].analysis_type,
                                   IF tasks[c].analysis_type = "consistency"
                                   THEN sort(tasks[c].list) ELSE tasks[c].list,
                                   tasks[c].driver)
             ELSE [kind |-> "None"]]
    /\ UNCHANGED <<laps, call, response>>

ConcInit ==
    /\ laps = <<>>
    /\ call = NoCall
    /\ response = [kind |-> "NoCall"]
    /\ tasks = [c \in Calls |-> Idle]

ConcNext ==
    \E c \in Calls :
        \/ \E session_laps \in ConcSessions, analysis_type \in AnalysisTypeArgs,
              driver \in ConcDriverArgs :
                Start(c, session_laps, analysis_type, driver)
        \/ Step(c)
        \/ Finish(c)

ConcSpec == ConcInit /\ [][ConcNext]_vars

-----------------------------------------------------------------------------
(* Properties *)

\* the clean-lap predicate of race pace, tire degradation and consistency as
\* the specification states it
is_clean_for_pace(l) ==
    /\ isna(l.PitInTime)
    /\ isna(l.PitOutTime)
    /\ l.IsAccurate
    /\ ~l.Deleted
    /\ notna(l.LapTime)

\* the clean-lap predicate of the stint summary as the specification states it
is_clean_for_stint(l) ==
    /\ isna(l.PitInTime)
    /\ isna(l.PitOutTime)
    /\ l.IsAccurate
    /\ notna(l.LapTime)

Returned == response.kind = "AnalysisResponse"

\* the one list of a returned response that is not None
ResultList(resp) ==
    CASE resp.analysis_type = "race_pace" -> resp.race_pace[1]
      [] resp.analysis_type = "tire_degradation" -> resp.tire_degradation[1]
      [] resp.analysis_type = "stint_summary" -> resp.stint_summaries[1]
      [] resp.analysis_type = "consistency" -> resp.consistency[1]

RowsOf(list, d) == LET Test(row) == row.driver = d IN SelectSeq(list, Test)

\* the identifier names driver d: by number when it is an int, by code
\* when it is a str
Identifies(identifier, d) ==
    CASE identifier = "#0" -> DriverNumber(d) = "0"
      [] identifier = "#1" -> DriverNumber(d) = "1"
      [] OTHER -> d = identifier

\* the drivers the call covers: the one of the filter, or all of them when
\* there is no filter (None, an empty identifier or 0)
InScope(d) == ~DriverGiven(call.driver) \/ Identifies(call.driver[1], d)

LapsOf(d) == pick_drivers(laps, d)

\* C1: in a call of race_pace, tire_degradation or consistency, the filter
\* of the branch keeps a lap iff it has no pit-in time, no pit-out time, is
\* accurate, is not deleted and has a lap time.
C1_PaceFilterNeedsLapTime ==
    \A i \in 1..Len(laps) :
        /\ call.analysis_type = "race_pace" =>
             (race_pace_clean(laps[i]) <=> is_clean_for_pace(laps[i]))
        /\ call.analysis_type = "tire_degradation" =>
             (degradation_clean(laps[i]) <=> is_clean_for_pace(laps[i]))
        /\ call.analysis_type = "consistency" =>
             (consistency_clean(laps[i]) <=> is_clean_for_pace(laps[i]))

\* C2: in a call of stint_summary, the filter keeps a lap iff it has no
\* pit-in time, no pit-out time, is accurate and has a lap time, whatever
\* Deleted is.
C2_SummaryFilterNeedsLapTime ==
    call.analysis_type = "stint_summary" =>
        \A i \in 1..Len(laps) :
            summary_clean(laps[i]) <=> is_clean_for_stint(laps[i])

\* C3: a call with an analysis_type that is none of the four ends in an
\* "unsupported analysis type" error and never returns normally.
C3_UnsupportedTypeIsAnError ==
    (call # NoCall /\ call.analysis_type \notin AnalysisTypes) =>
        response.kind = "UnsupportedAnalysisType"

\* the clean-lap predicate the specification gives an analysis type
is_clean_for(analysis_type, l) ==
    IF analysis_type = "stint_summary" THEN is_clean_for_stint(l)
    ELSE is_clean_for_pace(l)

\* the session without the laps of driver d
Without(d) == LET Test(l) == l.Driver # d IN SelectSeq(laps, Test)

HasNoCleanLap(d) ==
    \A i \in 1..Len(laps) :
        laps[i].Driver = d => ~is_clean_for(call.analysis_type, laps[i])

\* C4: whatever the analysis type, a driver without a clean lap under the
\* predicate of that type has no row in the result, and the rows of every
\* other driver are those the call produces without that driver's laps; in
\* race_pace every covered driver with a clean lap has its row.
C4_DriverOmission ==
    Returned =>
        /\ \A d \in Drivers :
             HasNoCleanLap(d) =>
               /\ RowsOf(ResultList(response), d) = <<>>
               /\ \A e \in Drivers \ {d} :
                    RowsOf(ResultList(response), e) =
                      RowsOf(ResultList(get_analysis(Without(d),
                                call.analysis_type, call.driver)), e)
        /\ call.analysis_type = "race_pace" =>
             \A e \in Drivers :
                (InScope(e) /\ ~HasNoCleanLap(e)) =>
                    Len(RowsOf(ResultList(response), e)) = 1

\* C4 witness: a driver whose only laps have no lap time is left out of a
\* race_pace result that holds the row of another driver.
C4_Witness ==
    /\ Returned
    /\ call.analysis_type = "race_pace"
    /\ \E d \in Drivers, e \in Drivers :
         /\ d # e
         /\ InScope(d)
         /\ LapsOf(d) # <<>>
         /\ \A i \in 1..Len(LapsOf(d)) : race_pace_clean(LapsOf(d)[i])
         /\ HasNoCleanLap(d)
         /\ RowsOf(ResultList(response), d) = <<>>
         /\ RowsOf(ResultList(response), e) # <<>>

\* C5: total_records of a returned response is the length of its one result
\* list.
C5_TotalRecords ==
    Returned => response.total_records = Len(ResultList(response))

\* C5 witness: a tire_degradation result of one row, after a covered driver
\* with two clean laps was dropped by the except clause.
C5_Witness ==
    /\ Returned
    /\ call.analysis_type = "tire_degradation"
    /\ response.total_records = 1
    /\ \E e \in Drivers :
         /\ InScope(e)
         /\ RowsOf(ResultList(response), e) = <<>>
         /\ Len(SelectSeq(LapsOf(e), degradation_clean)) >= 2
         /\ IsNaN(mean(LapsOf(e)))

\* the laps of stint s of driver d that are clean as the specification has it
CleanStintLaps(analysis_type, d, s) ==
    LET Test(l) == l.Stint = Some(s) /\ is_clean_for(analysis_type, l)
    IN  SelectSeq(LapsOf(d), Test)

CleanLaps(analysis_type, d) ==
    LET Test(l) == is_clean_for(analysis_type, l) IN SelectSeq(LapsOf(d), Test)

StintRows(list, d, s) ==
    LET Test(row) == row.driver = d /\ row.stint = s IN SelectSeq(list, Test)

\* C6: every tire_degradation row of a stint whose clean laps have the times
\* T1..Tn, n >= 2, has degradation Tn - T1, signed and never null.
C6_DegradationIsLastMinusFirst ==
    (Returned /\ call.analysis_type = "tire_degradation") =>
        \A k \in 1..Len(ResultList(response)) :
            LET row   == ResultList(response)[k]
                clean == CleanStintLaps("tire_degradation", row.driver, row.stint)
            IN  Len(clean) >= 2 =>
                  row.degradation =
                    Some(clean[Len(clean)].LapTime[1] - clean[1].LapTime[1])

\* C7: a covered driver has a consistency row iff it has at least 3 clean
\* laps, and the row's total_laps is the number of its clean laps.
C7_ConsistencyNeedsThreeCleanLaps ==
    (Returned /\ call.analysis_type = "consistency") =>
        \A d \in Drivers :
            LET rows == RowsOf(ResultList(response), d)
                n    == Len(CleanLaps("consistency", d))
            IN  /\ rows # <<>> <=> (InScope(d) /\ n >= 3)
                /\ \A k \in 1..Len(rows) : rows[k].total_laps = n

\* C8: a stint of a covered driver has a tire_degradation row iff it has at
\* least 2 clean laps.
C8_DegradationNeedsTwoCleanLaps ==
    (Returned /\ call.analysis_type = "tire_degradation") =>
        \A d \in Drivers, s \in 1..MaxStint :
            StintRows(ResultList(response), d, s) # <<>>
              <=> (InScope(d) /\ Len(CleanStintLaps("tire_degradation", d, s)) >= 2)

\* C9: a stint of a covered driver that has one lap, clean under both
\* predicates, has no tire_degradation row and has exactly one stint_summary
\* row, of stint_length 1.
C9_SingleLapStint ==
    Returned =>
        \A d \in Drivers, s \in 1..MaxStint :
            LET InStint(l) == l.Stint = Some(s)
                stint_laps == SelectSeq(LapsOf(d), InStint)
                rows       == StintRows(ResultList(response), d, s)
            IN  ( /\ InScope(d)
                  /\ Len(stint_laps) = 1
                  /\ is_clean_for_pace(stint_laps[1])
                  /\ is_clean_for_stint(stint_laps[1]) ) =>
                    /\ call.analysis_type = "tire_degradation" => rows = <<>>
                    /\ call.analysis_type = "stint_summary" =>
                         Len(rows) = 1 /\ rows[1].stint_length = 1

\* a coefficient_of_variation that is a number
IsNumber(cell) == cell # None /\ ~IsNaN(cell[1])

\* C10: the rows of a consistency response are in ascending order of
\* coefficient_of_variation, and no row with a null coefficient comes before
\* a row with a coefficient that is a number.
C10_ConsistencyOrder ==
    (Returned /\ call.analysis_type = "consistency") =>
        \A i, j \in 1..Len(ResultList(response)) :
            LET ci == ResultList(response)[i].coefficient_of_variation
                cj == ResultList(response)[j].coefficient_of_variation
            IN  i < j =>
                  /\ (IsNumber(ci) /\ IsNumber(cj)) => ~Less(cj[1], ci[1])
                  /\ ~(ci = None /\ IsNumber(cj))

\* C11: in every consistency row, coefficient_of_variation is null iff the
\* mean of the driver's clean lap times is zero or negative; when the mean is
\* positive it is (sample standard deviation / mean) * 100, which is 0 when
\* all the clean laps have the same time.
C11_CoefficientNullOnlyForNonPositiveMean ==
    (Returned /\ call.analysis_type = "consistency") =>
        \A k \in 1..Len(ResultList(response)) :
            LET row      == ResultList(response)[k]
                clean    == CleanLaps("consistency", row.driver)
                avg_time == mean(clean)
            IN  ~IsNaN(avg_time) =>
                  /\ row.coefficient_of_variation = None <=> avg_time.num <= 0
                  /\ avg_time.num > 0 =>
                       row.coefficient_of_variation =
                         coefficient_of_variation(std(clean), avg_time)


\* C12: in every analysis type the call returns normally, and when the
\* processing of a covered driver raises, the rows of every other driver are
\* those the call produces on the session without the raising driver's laps.
C12_FailureIsolation ==
    (call.analysis_type \in AnalysisTypes) =>
        /\ Returned
        /\ \A d \in Drivers :
             (InScope(d) /\ raises(call.analysis_type, laps, d)) =>
                \A e \in Drivers \ {d} :
                    RowsOf(ResultList(response), e) =
                      RowsOf(ResultList(get_analysis(Without(d),
                                call.analysis_type, call.driver)), e)

\* C12 witness: a consistency call over all drivers in which the first driver
\* of the session raises and a later driver has its row.
C12_Witness ==
    /\ Returned
    /\ call.analysis_type = "consistency"
    /\ call.driver = None
    /\ laps # <<>>
    /\ \E d \in Drivers, e \in Drivers :
         /\ d # e
         /\ laps[1].Driver = d
         /\ raises("consistency", laps, d)
         /\ RowsOf(ResultList(response), d) = <<>>
         /\ RowsOf(ResultList(response), e) # <<>>


\* the result lists of a response that are not null, by field name
NonNullLists(resp) ==
    {f \in {"race_pace", "tire_degradation", "stint_summaries", "consistency"} :
        resp[f] # None}

\* the field that holds the rows of an analysis type
ListField(analysis_type) ==
    IF analysis_type = "stint_summary" THEN "stint_summaries" ELSE analysis_type

\* C13: every returned response carries the requested analysis_type as its
\* tag, and exactly one of its four result lists is not null: the one of that
\* analysis type.
C13_ExactlyOneResultList ==
    Returned =>
        /\ response.analysis_type = call.analysis_type
        /\ NonNullLists(response) = {ListField(call.analysis_type)}

\* C13 witness: a stint_summary response whose stint_summaries list has a row
\* and whose other three lists are null.
C13_Witness ==
    /\ Returned
    /\ call.analysis_type = "stint_summary"
    /\ response.stint_summaries # None
    /\ Len(response.stint_summaries[1]) > 0
    /\ response.race_pace = None
    /\ response.tire_degradation = None
    /\ response.consistency = None


\* a driver filter is supplied: the driver argument is an identifier (a
\* driver code, or a driver number other than 0)
Supplied == call.driver \notin {None, Some(""), Some("#0")}

\* C14: with a driver filter, every row of the response is a row of that
\* driver and driver_filter is the identifier; without one, driver_filter is
\* null and every driver of the session's laps is considered, its rows being
\* those of the call filtered on that driver.
C14_DriverScopeAndEcho ==
    Returned =>
        IF Supplied
        THEN /\ \A k \in 1..Len(ResultList(response)) :
                  Identifies(call.driver[1], ResultList(response)[k].driver)
             /\ response.driver_filter =
                  IF call.driver = Some("#1") THEN Some("1") ELSE call.driver
        ELSE /\ response.driver_filter = None
             /\ \A i \in 1..Len(laps) :
                  RowsOf(ResultList(response), laps[i].Driver) =
                    ResultList(get_analysis(laps, call.analysis_type,
                                            Some(laps[i].Driver)))

\* C14 witness: a call filtered on the second driver of a two-driver session
\* returns rows, all of that driver, and echoes the identifier.
C14_Witness ==
    /\ Returned
    /\ Supplied
    /\ laps # <<>>
    /\ laps[1].Driver # call.driver[1]
    /\ ResultList(response) # <<>>
    /\ \A k \in 1..Len(ResultList(response)) :
         ResultList(response)[k].driver = call.driver[1]
    /\ response.driver_filter = call.driver
    /\ call.driver[1] \in Drivers


\* the laps the call covers
CoveredLaps == scoped_laps(laps, call.driver)

\* C15: a call with one of the four analysis types returns a response,
\* whatever data is missing; the response is empty, with total_records 0,
\* when the call covers no lap (an empty session, or a filter on a driver
\* without laps) and, in the two stint analyses, when no covered lap has a
\* stint id.
C15_MissingDataNeverRaises ==
    (call.analysis_type \in AnalysisTypes) =>
        /\ Returned
        /\ CoveredLaps = <<>> =>
             ResultList(response) = <<>> /\ response.total_records = 0
        /\ ( /\ call.analysis_type \in {"tire_degradation", "stint_summary"}
             /\ \A i \in 1..Len(CoveredLaps) : isna(CoveredLaps[i].Stint) ) =>
             ResultList(response) = <<>> /\ response.total_records = 0

\* C15 witness: a stint_summary call filtered on a driver that has no lap in
\* a session that has laps returns an empty response.
C15_Witness ==
    /\ Returned
    /\ call.analysis_type = "stint_summary"
    /\ Supplied
    /\ laps # <<>>
    /\ CoveredLaps = <<>>
    /\ response.stint_summaries = Some(<<>>)
    /\ response.total_records = 0


\* C16: in a race_pace response every covered driver with a clean lap has one
\* row; the row reports the mean, the median and the minimum of the driver's
\* clean lap times, total_laps = the number of the driver's laps and
\* clean_laps = the number of its clean laps, so that
\* 1 <= clean_laps <= total_laps, fastest <= median and fastest <= mean.
C16_RacePaceRow ==
    (Returned /\ call.analysis_type = "race_pace") =>
        \A d \in Drivers :
            LET rows  == RowsOf(ResultList(response), d)
                clean == CleanLaps("race_pace", d)
            IN  (InScope(d) /\ clean # <<>>) =>
                  /\ Len(rows) = 1
                  /\ rows[1].average_lap_time = Timedelta(mean(clean))
                  /\ rows[1].median_lap_time = Timedelta(median(clean))
                  /\ rows[1].fastest_lap_time = Timedelta(min(clean))
                  /\ rows[1].total_laps = Len(LapsOf(d))
                  /\ rows[1].clean_laps = Len(clean)
                  /\ 1 <= rows[1].clean_laps
                  /\ rows[1].clean_laps <= rows[1].total_laps
                  /\ rows[1].fastest_lap_time <= rows[1].median_lap_time
                  /\ rows[1].fastest_lap_time <= rows[1].average_lap_time


\* the position in the session's laps of the first lap of driver d
FirstLapOf(d) ==
    CHOOSE i \in 1..Len(laps) :
        laps[i].Driver = d /\ \A j \in 1..(i - 1) : laps[j].Driver # d

\* C17: without a driver filter, the rows of race_pace follow the order in
\* which their drivers first appear in the session's laps, one row at most
\* per driver; the rows of tire_degradation and stint_summary are grouped by
\* driver, the groups in that same order.
C17_DriverOrder ==
    ( /\ Returned
      /\ ~Supplied
      /\ call.analysis_type \in {"race_pace", "tire_degradation", "stint_summary"} ) =>
        \A i, j \in 1..Len(ResultList(response)) :
            LET di == ResultList(response)[i].driver
                dj == ResultList(response)[j].driver
            IN  i < j =>
                  /\ FirstLapOf(di) <= FirstLapOf(dj)
                  /\ call.analysis_type = "race_pace" =>
                       FirstLapOf(di) < FirstLapOf(dj)

\* C17 witness: a stint_summary response over a session whose laps alternate
\* between two drivers has the two rows of the first driver before a row of
\* the second.
C17_Witness ==
    /\ Returned
    /\ ~Supplied
    /\ call.analysis_type = "stint_summary"
    /\ Len(laps) >= 3
    /\ laps[1].Driver = laps[3].Driver
    /\ laps[1].Driver # laps[2].Driver
    /\ Len(ResultList(response)) >= 3
    /\ ResultList(response)[1].driver = laps[1].Driver
    /\ ResultList(response)[2].driver = laps[1].Driver
    /\ ResultList(response)[3].driver = laps[2].Driver


\* the position among the laps of driver d of the first lap of stint s
FirstLapOfStint(d, s) ==
    CHOOSE i \in 1..Len(LapsOf(d)) :
        /\ LapsOf(d)[i].Stint = Some(s)
        /\ \A j \in 1..(i - 1) : LapsOf(d)[j].Stint # Some(s)

RECURSIVE Excluded(_)
Excluded(rows) ==
    IF rows = <<>> THEN <<>>
    ELSE <<IF isna(Head(rows).LapTime)
           THEN [Head(rows) EXCEPT !.IsAccurate = FALSE]
           ELSE Head(rows)>> \o Excluded(Tail(rows))

\* C20: when one lap of the session has no lap time, the call returns, and
\* its response is the one the same session gives with that lap marked as
\* not clean: the lap is left out of the statistics and the counts of its
\* driver, and the driver's other laps produce the driver's rows.
C20_MalformedLapIsNotClean ==
    ( /\ call.analysis_type \in AnalysisTypes
      /\ Cardinality({i \in 1..Len(laps) : isna(laps[i].LapTime)}) = 1 ) =>
        /\ Returned
        /\ response = get_analysis(Excluded(laps), call.analysis_type, call.driver)


\* the lap of a non-empty sequence of laps with the smallest lap number
EarliestLap(ls) ==
    CHOOSE l \in {ls[i] : i \in 1..Len(ls)} :
        \A i \in 1..Len(ls) : l.LapNumber <= ls[i].LapNumber

\* the lap of a non-empty sequence of laps with the largest lap number
LatestLap(ls) ==
    CHOOSE l \in {ls[i] : i \in 1..Len(ls)} :
        \A i \in 1..Len(ls) : l.LapNumber >= ls[i].LapNumber

\* C21: in every tire_degradation row, first_lap_time is the lap time of the
\* stint's clean lap with the smallest lap number and last_lap_time that of
\* the clean lap with the largest lap number, in whatever row order the
\* driver's laps come.
C21_FirstAndLastByLapNumber ==
    (Returned /\ call.analysis_type = "tire_degradation") =>
        \A k \in 1..Len(ResultList(response)) :
            LET row   == ResultList(response)[k]
                clean == CleanStintLaps("tire_degradation", row.driver, row.stint)
            IN  clean # <<>> =>
                  /\ row.first_lap_time = EarliestLap(clean).LapTime
                  /\ row.last_lap_time = LatestLap(clean).LapTime


\* the sample count a row reports
SampleCount(analysis_type, row) ==
    CASE analysis_type = "race_pace" -> row.clean_laps
      [] analysis_type = "tire_degradation" -> row.stint_length
      [] analysis_type = "stint_summary" -> row.stint_length
      [] analysis_type = "consistency" -> row.total_laps

\* the lap times that enter the statistics of a row: those of the kept laps
\* of the row's driver (and stint) that have a lap time
SampleTimes(analysis_type, row) ==
    IF analysis_type \in {"tire_degradation", "stint_summary"}
    THEN total_seconds(CleanStintLaps(analysis_type, row.driver, row.stint))
    ELSE total_seconds(CleanLaps(analysis_type, row.driver))

\* C22: in every row of every analysis type, the reported sample count is the
\* number of lap times that entered the row's statistics; no lap without a
\* lap time is counted.
C22_CountIsSampleSize ==
    Returned =>
        \A k \in 1..Len(ResultList(response)) :
            LET row == ResultList(response)[k]
            IN  SampleCount(call.analysis_type, row)
                  = Len(SampleTimes(call.analysis_type, row))


\* the laps of stint s of driver d, clean or not
RawStintLaps(d, s) ==
    LET Test(l) == l.Stint = Some(s) IN SelectSeq(LapsOf(d), Test)

\* C23: in every tire_degradation row, average_lap_time is the mean of the
\* stint's clean lap times and stint_length is the number of the stint's
\* clean laps, at least 2 and at most the number of laps in the stint.
C23_DegradationAverageAndLength ==
    (Returned /\ call.analysis_type = "tire_degradation") =>
        \A k \in 1..Len(ResultList(response)) :
            LET row   == ResultList(response)[k]
                clean == CleanStintLaps("tire_degradation", row.driver, row.stint)
            IN  /\ clean # <<>>
                /\ row.average_lap_time = Timedelta(mean(clean))
                /\ row.stint_length = Len(clean)
                /\ row.stint_length >= 2
                /\ row.stint_length <= Len(RawStintLaps(row.driver, row.stint))


\* the session without the laps that have no stint id
WithStintId == LET Test(l) == notna(l.Stint) IN SelectSeq(laps, Test)

\* C24: in tire_degradation and stint_summary, the laps without a stint id
\* contribute nothing: the response is the one of the session without them,
\* so they make no row, enter no value of another stint's row, and leave
\* the driver's other laps analysed.
C24_NullStintLapsContributeNothing ==
    (Returned /\ call.analysis_type \in {"tire_degradation", "stint_summary"}) =>
        response = get_analysis(WithStintId, call.analysis_type, call.driver)

\* C24 witness: a tire_degradation response has a row of stint 1 of length 2
\* for a driver with three laps, one of them without a stint id.
C24_Witness ==
    /\ Returned
    /\ call.analysis_type = "tire_degradation"
    /\ Len(laps) = 3
    /\ \E i \in 1..Len(laps) : isna(laps[i].Stint)
    /\ Len(ResultList(response)) = 1
    /\ ResultList(response)[1].stint = 1
    /\ ResultList(response)[1].stint_length = 2


\* two rows have the same sort key: the same coefficient, or both none
SameKey(ri, rj) ==
    \/ ri.coefficient_of_variation = None /\ rj.coefficient_of_variation = None
    \/ /\ IsNumber(ri.coefficient_of_variation)
       /\ IsNumber(rj.coefficient_of_variation)
       /\ ri.coefficient_of_variation = rj.coefficient_of_variation

\* C25: sorting a returned consistency list again leaves it as it is, and
\* rows with the same sort key are in the order in which their drivers first
\* appear in the session's laps.
C25_SortIdempotentAndStable ==
    (Returned /\ call.analysis_type = "consistency") =>
        /\ sort(ResultList(response)) = ResultList(response)
        /\ \A i, j \in 1..Len(ResultList(response)) :
             LET ri == ResultList(response)[i]
                 rj == ResultList(response)[j]
             IN  (i < j /\ SameKey(ri, rj)) =>
                   FirstLapOf(ri.driver) < FirstLapOf(rj.driver)


\* C27: in tire_degradation and stint_summary, a covered driver whose stint
\* loop raises has no row in the result.
C27_SkippedDriverHasNoRow ==
    (Returned /\ call.analysis_type \in {"tire_degradation", "stint_summary"}) =>
        \A d \in Drivers :
            (InScope(d) /\ raises(call.analysis_type, laps, d)) =>
                RowsOf(ResultList(response), d) = <<>>


\* the stint_summary response to the arguments of the call
SummaryOfCall == get_analysis(laps, "stint_summary", call.driver)

\* no covered driver raises in the tire_degradation or in the stint_summary
\* analysis
NoException ==
    \A d \in Drivers :
        InScope(d) => /\ ~raises("tire_degradation", laps, d)
                      /\ ~raises("stint_summary", laps, d)

\* C28: when no driver raises, every row of a tire_degradation response has
\* a row of the same driver and stint in the stint_summary response to the
\* same session and driver filter, with a stint_length at least as large.
C28_SummaryCoversDegradation ==
    (Returned /\ call.analysis_type = "tire_degradation" /\ NoException) =>
        \A i \in 1..Len(ResultList(response)) :
            LET row == ResultList(response)[i]
            IN  \E j \in 1..Len(ResultList(SummaryOfCall)) :
                    LET sum == ResultList(SummaryOfCall)[j]
                    IN  /\ sum.driver = row.driver
                        /\ sum.stint = row.stint
                        /\ sum.stint_length >= row.stint_length

\* C28 witness: a tire_degradation row of two laps whose stint has a
\* stint_summary row of three, the third lap being deleted.
C28_Witness ==
    /\ Returned
    /\ call.analysis_type = "tire_degradation"
    /\ NoException
    /\ \E i \in 1..Len(ResultList(response)) :
         \E j \in 1..Len(ResultList(SummaryOfCall)) :
            LET row == ResultList(response)[i]
                sum == ResultList(SummaryOfCall)[j]
            IN  /\ sum.driver = row.driver
                /\ sum.stint = row.stint
                /\ row.stint_length = 2
                /\ sum.stint_length = 3


\* the laps of driver d with stint id s that the filter of the branch keeps
KeptStintLaps(analysis_type, d, s) ==
    LET Test(l) ==
          /\ l.Stint = Some(s)
          /\ IF analysis_type = "tire_degradation" THEN degradation_clean(l)
             ELSE summary_clean(l)
    IN  SelectSeq(LapsOf(d), Test)

\* C29: a race_pace or consistency response has at most one row per driver;
\* a tire_degradation or stint_summary response has at most one row per
\* driver and stint, and the stint_lengths of a driver's rows count each of
\* the driver's laps at most once: a row counts laps of its own stint only,
\* and together the rows count no more laps than the driver has with a stint
\* id.
C29_RowsUniquePerKey ==
    Returned =>
        LET list == ResultList(response)
        IN  /\ call.analysis_type \in {"race_pace", "consistency"} =>
                 \A i, j \in 1..Len(list) :
                     list[i].driver = list[j].driver => i = j
            /\ call.analysis_type \in {"tire_degradation", "stint_summary"} =>
                 /\ \A i, j \in 1..Len(list) :
                        ( /\ list[i].driver = list[j].driver
                          /\ list[i].stint = list[j].stint ) => i = j
                 /\ \A i \in 1..Len(list) :
                        list[i].stint_length =
                          Len(KeptStintLaps(call.analysis_type,
                                            list[i].driver, list[i].stint))
                 /\ \A d \in Drivers :
                        LET rows == RowsOf(list, d)
                            HasStint(l) == notna(l.Stint)
                        IN  SumSeq([k \in 1..Len(rows) |-> rows[k].stint_length])
                              <= Len(SelectSeq(LapsOf(d), HasStint))

\* C29 witness: the laps of a driver go from one stint to another and back,
\* and the stint_summary response has one row for each of the two stints.
C29_Witness ==
    /\ Returned
    /\ call.analysis_type = "stint_summary"
    /\ Len(laps) = 3
    /\ laps[1].Driver = laps[2].Driver
    /\ laps[2].Driver = laps[3].Driver
    /\ laps[1].Stint # laps[2].Stint
    /\ laps[3].Stint = laps[1].Stint
    /\ Len(ResultList(response)) = 2
    /\ ResultList(response)[1].stint_length = 2


\* the response of the call with no driver argument
UnfilteredResponse == get_analysis(laps, call.analysis_type, None)

\* C30: a call whose driver argument is the empty string or the number 0
\* returns what the call without a driver argument returns, with
\* driver_filter null; a call with any other driver argument returns the
\* rows of the driver it names and no others, and driver_filter is the
\* argument as a string: the code itself, or the digits of the number.
C30_FalsyDriverIsNoFilter ==
    (Returned /\ call.driver # None) =>
        IF call.driver \in {Some(""), Some("#0")}
        THEN /\ response = UnfilteredResponse
             /\ response.driver_filter = None
        ELSE /\ \A k \in 1..Len(ResultList(response)) :
                  Identifies(call.driver[1], ResultList(response)[k].driver)
             /\ \A d \in Drivers :
                  Identifies(call.driver[1], d) =>
                      ResultList(response) = RowsOf(ResultList(UnfilteredResponse), d)
             /\ response.driver_filter =
                  IF call.driver = Some("#1") THEN Some("1") ELSE call.driver

\* C30 witness: a call with the number 0 as driver argument on a session of
\* two drivers returns a row for each of them and a null driver_filter.
C30_Witness ==
    /\ Returned
    /\ call.driver = Some("#0")
    /\ Len(ResultList(response)) = 2
    /\ ResultList(response)[1].driver # ResultList(response)[2].driver
    /\ response.driver_filter = None


====
